---- MODULE Spec2Model ----
(***************************************************************************)
(* Authentication / session core of the Wisal dashboard front end:         *)
(*   src/src/providers/AuthProvider.tsx  Auth Context (login, logout,      *)
(*                                       refresh, boot effect,             *)
(*                                       applyAuthResponse, decodeJwt)     *)
(*   src/src/api/httpClient.ts           HTTP client (default              *)
(*                                       Authorization header, response    *)
(*                                       error interceptor)                *)
(*   src/src/constants/roles.ts          role enum                         *)
(*   src/unnamed/part_001                ProtectedRoute (route guard)      *)
(*                                                                         *)
(* The browser is single threaded: a remote call is started in one task    *)
(* and its response is handled in a later task.  The response interceptor  *)
(* and the continuation of the awaiting async function (try/catch/finally) *)
(* run in the micro-tasks of the task that delivers the response, so each  *)
(* "settle" action below is the interceptor followed by the continuation.  *)
(***************************************************************************)
EXTENDS Integers, Sequences, FiniteSets, Bags, TLC

\* ------------------------------------------------------------------------
\* Bounds of the model
\* ------------------------------------------------------------------------
\* at most this many remote calls are awaiting their response at once
MaxPending == 2

\* React.StrictMode (main.tsx) runs a mount effect twice in a development
\* build and once in a production build
StrictModeEffectRuns == 2

\* ------------------------------------------------------------------------
\* JavaScript values
\* ------------------------------------------------------------------------
\* null / absent key, for the in-memory session fields and localStorage
Null == "<null>"

Undef == [t |-> "undefined", s |-> ""]
Str(x) == [t |-> "string", s |-> x]
\* a truthy value that is not a string
Num7 == [t |-> "number", s |-> "7"]

\* JavaScript truthiness of a value
Truthy(v) == \/ v.t = "string" /\ v.s # ""
             \/ v.t = "number"

\* a || b
JsOr(a, b) == IF Truthy(a) THEN a ELSE b

\* typeof v === 'string' && v
NonEmptyString(v) == v.t = "string" /\ v.s # ""

\* isEmployeeRole that accepts every non-empty string
isEmployeeRoleAnyString(v) == v.t = "string" /\ v.s # ""

\* roles.ts: isEmployeeRole
isEmployeeRole(v) ==
    \/ v = Str("ADMIN")
    \/ v = Str("DISTRIBUTER")
    \/ v = Str("PUBLISHER")
    \/ v = Str("DELIVERER")

EmployeeRoles == {"ADMIN", "DISTRIBUTER", "PUBLISHER", "DELIVERER"}

\* ------------------------------------------------------------------------
\* Bearer tokens and the token codec
\* ------------------------------------------------------------------------
\* A token string is the sequence of its dot-separated segments.  A segment
\* is empty, or text that is not valid base64, or the base64 encoding of a
\* text; the text is invalid JSON or the JSON value `json`.
NoJson == [t |-> "invalid", sub |-> Undef, role |-> Undef, institutionId |-> Undef]
JsonObject(sub, r, inst) == [t |-> "object", sub |-> sub, role |-> r, institutionId |-> inst]
JsonNull == [t |-> "null", sub |-> Undef, role |-> Undef, institutionId |-> Undef]

EmptySeg == [kind |-> "empty", json |-> NoJson]
BadB64Seg == [kind |-> "badb64", json |-> NoJson]
B64Seg(j) == [kind |-> "b64", json |-> j]
\* header and signature segments: never read
OpaqueSeg == B64Seg(NoJson)

\* the result of decodeJwt when it returns null
NoClaims == JsonNull

\* AuthProvider.tsx: decodeJwt
decodeJwt(token) ==
    IF Len(token) < 2 THEN NoClaims                 \* payload undefined
    ELSE LET payload == token[2] IN
         IF payload.kind = "empty" THEN NoClaims    \* !payload
         ELSE IF payload.kind = "badb64" THEN NoClaims      \* atob throws
         ELSE IF payload.json.t = "invalid" THEN NoClaims   \* JSON.parse throws
         ELSE payload.json

\* the accessToken field of a response body
NoTokenField == [t |-> "undefined", segs |-> << >>]
TokenField(segs) == [t |-> "string", segs |-> segs]
\* typeof maybeToken === 'string' && maybeToken
NonEmptyToken(f) == f.t = "string" /\ f.segs # << EmptySeg >>

\* the default Authorization header is absent
NoToken == << >>

TokenAdmin == << OpaqueSeg, B64Seg(JsonObject(Str("emp-1"), Str("ADMIN"), Str("inst-9"))), OpaqueSeg >>
TokenPublisher == << OpaqueSeg, B64Seg(JsonObject(Str("emp-1"), Str("PUBLISHER"), Undef)), OpaqueSeg >>

\* ------------------------------------------------------------------------
\* Authentication responses (the `data` of a 2xx reply to login / refresh)
\* ------------------------------------------------------------------------
Body(isObj, tok, inst, instObjId, userInst, r, userRole, id, userId) ==
    [object |-> isObj, accessToken |-> tok,
     institutionId |-> inst, institution_id |-> instObjId, user_institutionId |-> userInst,
     role |-> r, user_role |-> userRole,
     id |-> id, user_id |-> userId]

\* null, a string, a number: not an object
NotAnObject == Body(FALSE, NoTokenField, Undef, Undef, Undef, Undef, Undef, Undef, Undef)
\* {accessToken: <claims sub=emp-1 role=ADMIN institutionId=inst-9>}
RespTokenAdmin == Body(TRUE, TokenField(TokenAdmin), Undef, Undef, Undef, Undef, Undef, Undef, Undef)
\* {id: "emp-2", role: "PUBLISHER", institution: {id: "inst-3"}}, no token
RespBodyOnly == Body(TRUE, NoTokenField, Undef, Str("inst-3"), Undef, Str("PUBLISHER"), Undef, Str("emp-2"), Undef)
\* claims role PUBLISHER, top-level role ADMIN, top-level institutionId
RespMixed == Body(TRUE, TokenField(TokenPublisher), Str("inst-3"), Undef, Undef, Str("ADMIN"), Undef, Undef, Str("emp-2"))

\* {role: "SUPERADMIN", user: {role: "ADMIN", institutionId: "inst-7"}}, no token
RespBadRole == Body(TRUE, NoTokenField, Undef, Undef, Str("inst-7"), Str("SUPERADMIN"), Str("ADMIN"), Undef, Undef)

\* the bodies the remote API answers login and refresh with
AuthResponses == {NotAnObject, RespTokenAdmin, RespBodyOnly, RespMixed, RespBadRole}

\* ------------------------------------------------------------------------
\* Replies of the remote API
\* ------------------------------------------------------------------------
\* hasResponse = FALSE: the request failed without a response (error.response
\* is undefined); otherwise status is the HTTP status and data the body
Reply(hasResponse, status, data) == [hasResponse |-> hasResponse, status |-> status, data |-> data]

NetworkFailure == Reply(FALSE, 0, NotAnObject)
ErrorStatuses == {401, 500}
ErrorReplies == {Reply(TRUE, s, NotAnObject) : s \in ErrorStatuses} \cup {NetworkFailure}
\* replies to login and refresh
AuthReplies == {Reply(TRUE, 200, d) : d \in AuthResponses} \cup ErrorReplies
\* replies to logout and to the resource services: the body plays no part
PlainReplies == {Reply(TRUE, 200, NotAnObject)} \cup ErrorReplies

\* axios resolves a reply with a 2xx status and rejects every other one
Resolves(reply) == reply.hasResponse /\ reply.status >= 200 /\ reply.status < 300

\* ------------------------------------------------------------------------
\* State
\* ------------------------------------------------------------------------
VARIABLES
    authHeader,       \* api.defaults.headers.common.Authorization: a token or NoToken
    isAuthenticated,  \* AuthProvider state
    initializing,     \* AuthProvider state
    institutionId,    \* AuthProvider state: a string or Null
    role,             \* AuthProvider state: a string or Null
    employeeId,       \* AuthProvider state: a string or Null
    storage,          \* localStorage: key -> string, or Null when the key is absent
    pending,          \* bag of the remote calls awaiting their reply
    bootRuns,         \* how many times the provider's mount effect has run
    lastResult,       \* how the call that settled last ended for its caller
    probe             \* the operation a function-level specification applied
                      \* last, with its inputs and its result

vars == << authHeader, isAuthenticated, initializing, institutionId, role, employeeId,
           storage, pending, bootRuns, lastResult, probe >>

\* no function-level specification has applied anything
NoProbe == [fn |-> "none"]

StorageKeys == {"institutionId", "employeeRole", "employeeId"}

\* the session as one value, for the operators below
Session == [authHeader |-> authHeader, isAuthenticated |-> isAuthenticated,
            initializing |-> initializing, institutionId |-> institutionId,
            role |-> role, employeeId |-> employeeId, storage |-> storage]

\* the session variables take the values of st
Commit(st) ==
    /\ authHeader' = st.authHeader
    /\ isAuthenticated' = st.isAuthenticated
    /\ initializing' = st.initializing
    /\ institutionId' = st.institutionId
    /\ role' = st.role
    /\ employeeId' = st.employeeId
    /\ storage' = st.storage

\* ------------------------------------------------------------------------
\* HTTP client
\* ------------------------------------------------------------------------
\* httpClient.ts: setAuthToken (token = NoToken stands for null)
setAuthToken(st, token) ==
    IF token # NoToken /\ token # << EmptySeg >>
    THEN [st EXCEPT !.authHeader = token]
    ELSE [st EXCEPT !.authHeader = NoToken]

\* responseError with the 401 test on the wrong status
responseErrorOn403(st, reply) ==
    IF reply.hasResponse
    THEN IF reply.status = 403 THEN setAuthToken(st, NoToken) ELSE st
    ELSE st

\* responseError clearing the credential on every failure
responseErrorOnAnyFailure(st, reply) == setAuthToken(st, NoToken)

\* httpClient.ts: the response error interceptor, for a reply axios rejects
responseError(st, reply) ==
    IF reply.hasResponse
    THEN IF reply.status = 401 THEN setAuthToken(st, NoToken) ELSE st
    ELSE st

\* httpClient.ts: the two fixed messages (stand-ins for the Arabic texts
\* "an unexpected error occurred" and "could not reach the server")
GenericMessage == Str("unexpected error")
UnreachableMessage == Str("cannot reach server")

\* httpClient.ts: class ApiError; status and details are optional
ApiError(status, message, details) ==
    [name |-> "ApiError", status |-> status, message |-> message, details |-> details]
NoStatus == [t |-> "undefined", n |-> 0]
StatusOf(n) == [t |-> "number", n |-> n]

\* the body of an error reply: an object with optional message, error and
\* title, or something without these properties (no body, a string, null)
ErrorData(isObj, message, error, title) ==
    [object |-> isObj, message |-> message, error |-> error, title |-> title]
NoErrorData == ErrorData(FALSE, Undef, Undef, Undef)

\* data?.message, data?.error, data?.title
DataProp(data, name) ==
    IF ~data.object THEN Undef
    ELSE CASE name = "message" -> data.message
           [] name = "error" -> data.error
           [] name = "title" -> data.title

\* rejectionOf reading title before error before message
rejectionOfTitleFirst(reply) ==
    IF reply.hasResponse
    THEN ApiError(StatusOf(reply.status),
                  JsOr(DataProp(reply.data, "title"),
                       JsOr(DataProp(reply.data, "error"),
                            JsOr(DataProp(reply.data, "message"), GenericMessage))),
                  reply.data)
    ELSE ApiError(NoStatus, UnreachableMessage, NoErrorData)

\* httpClient.ts: the ApiError the response error interceptor rejects with
rejectionOf(reply) ==
    IF reply.hasResponse
    THEN ApiError(StatusOf(reply.status),
                  JsOr(DataProp(reply.data, "message"),
                       JsOr(DataProp(reply.data, "error"),
                            JsOr(DataProp(reply.data, "title"), GenericMessage))),
                  reply.data)
    ELSE ApiError(NoStatus, UnreachableMessage, NoErrorData)

\* httpClient.ts: the response interceptors: the session after them
interceptors(st, reply) ==
    IF Resolves(reply) THEN st ELSE responseError(st, reply)

\* ------------------------------------------------------------------------
\* Auth Context
\* ------------------------------------------------------------------------
\* AuthProvider.tsx: persistInstitutionId
persistInstitutionId(st, value) ==
    [st EXCEPT !.institutionId = value,
               !.storage = [@ EXCEPT !["institutionId"] =
                                IF value # Null /\ value # "" THEN value ELSE Null]]

\* persistRole that sets the role state and leaves localStorage alone
persistRoleStateOnly(st, value) == [st EXCEPT !.role = value]

\* AuthProvider.tsx: persistRole
persistRole(st, value) ==
    [st EXCEPT !.role = value,
               !.storage = [@ EXCEPT !["employeeRole"] =
                                IF value # Null /\ value # "" THEN value ELSE Null]]

\* AuthProvider.tsx: persistEmployeeId
persistEmployeeId(st, value) ==
    [st EXCEPT !.employeeId = value,
               !.storage = [@ EXCEPT !["employeeId"] =
                                IF value # Null /\ value # "" THEN value ELSE Null]]

\* AuthProvider.tsx: setIsAuthenticated
setIsAuthenticated(st, value) == [st EXCEPT !.isAuthenticated = value]

\* AuthProvider.tsx: setInitializing
setInitializing(st, value) == [st EXCEPT !.initializing = value]

\* the value a claim or body field contributes: its string, or Null
StringOrNull(v) == IF NonEmptyString(v) THEN v.s ELSE Null
RoleOrNull(v) == IF isEmployeeRole(v) THEN v.s ELSE Null

\* applyAuthResponse whose role fallback lacks the `&& !nextRole` test, so
\* that the body's role replaces the claims' role
applyAuthResponseBodyRoleWins(st, response) ==
    IF ~response.object
    THEN [st |-> st, role |-> Null, institutionId |-> Null, employeeId |-> Null]
    ELSE
    LET maybeToken == response.accessToken
        hasToken == NonEmptyToken(maybeToken)
        s0 == IF hasToken THEN setAuthToken(st, maybeToken.segs) ELSE st
        claims == IF hasToken THEN decodeJwt(maybeToken.segs) ELSE NoClaims
        hasClaims == claims.t \in {"object", "number", "string", "array"}
        derivedInstitutionId == IF hasClaims THEN StringOrNull(claims.institutionId) ELSE Null
        s1 == IF derivedInstitutionId # Null THEN persistInstitutionId(s0, derivedInstitutionId) ELSE s0
        derivedRole == IF hasClaims THEN RoleOrNull(claims.role) ELSE Null
        s2 == IF derivedRole # Null THEN persistRole(s1, derivedRole) ELSE s1
        derivedEmployeeId == IF hasClaims THEN StringOrNull(claims.sub) ELSE Null
        s3 == IF derivedEmployeeId # Null THEN persistEmployeeId(s2, derivedEmployeeId) ELSE s2
        maybeInstitutionId == JsOr(JsOr(response.institutionId, response.institution_id),
                                   response.user_institutionId)
        s4 == IF NonEmptyString(maybeInstitutionId)
              THEN persistInstitutionId(s3, maybeInstitutionId.s) ELSE s3
        nextInstitutionId == IF derivedInstitutionId # Null THEN derivedInstitutionId
                             ELSE StringOrNull(maybeInstitutionId)
        maybeRole == JsOr(response.role, response.user_role)
        takeRole == isEmployeeRole(maybeRole)
        s5 == IF takeRole THEN persistRole(s4, maybeRole.s) ELSE s4
        nextRole == IF takeRole THEN maybeRole.s ELSE derivedRole
        maybeEmployeeId == JsOr(response.id, response.user_id)
        takeEmployeeId == NonEmptyString(maybeEmployeeId) /\ derivedEmployeeId = Null
        s6 == IF takeEmployeeId THEN persistEmployeeId(s5, maybeEmployeeId.s) ELSE s5
        nextEmployeeId == IF takeEmployeeId THEN maybeEmployeeId.s ELSE derivedEmployeeId
    IN [st |-> s6, role |-> nextRole, institutionId |-> nextInstitutionId,
        employeeId |-> nextEmployeeId]

\* applyAuthResponse whose role fallback tests the role state of the render
\* that created the callback (`!role`) instead of `!nextRole`
applyAuthResponseStaleRole(st, response) ==
    IF ~response.object
    THEN [st |-> st, role |-> Null, institutionId |-> Null, employeeId |-> Null]
    ELSE
    LET maybeToken == response.accessToken
        hasToken == NonEmptyToken(maybeToken)
        s0 == IF hasToken THEN setAuthToken(st, maybeToken.segs) ELSE st
        claims == IF hasToken THEN decodeJwt(maybeToken.segs) ELSE NoClaims
        hasClaims == claims.t \in {"object", "number", "string", "array"}
        derivedInstitutionId == IF hasClaims THEN StringOrNull(claims.institutionId) ELSE Null
        s1 == IF derivedInstitutionId # Null THEN persistInstitutionId(s0, derivedInstitutionId) ELSE s0
        derivedRole == IF hasClaims THEN RoleOrNull(claims.role) ELSE Null
        s2 == IF derivedRole # Null THEN persistRole(s1, derivedRole) ELSE s1
        derivedEmployeeId == IF hasClaims THEN StringOrNull(claims.sub) ELSE Null
        s3 == IF derivedEmployeeId # Null THEN persistEmployeeId(s2, derivedEmployeeId) ELSE s2
        maybeInstitutionId == JsOr(JsOr(response.institutionId, response.institution_id),
                                   response.user_institutionId)
        s4 == IF NonEmptyString(maybeInstitutionId)
              THEN persistInstitutionId(s3, maybeInstitutionId.s) ELSE s3
        nextInstitutionId == IF derivedInstitutionId # Null THEN derivedInstitutionId
                             ELSE StringOrNull(maybeInstitutionId)
        maybeRole == JsOr(response.role, response.user_role)
        takeRole == isEmployeeRole(maybeRole) /\ st.role = Null
        s5 == IF takeRole THEN persistRole(s4, maybeRole.s) ELSE s4
        nextRole == IF takeRole THEN maybeRole.s ELSE derivedRole
        maybeEmployeeId == JsOr(response.id, response.user_id)
        takeEmployeeId == NonEmptyString(maybeEmployeeId) /\ derivedEmployeeId = Null
        s6 == IF takeEmployeeId THEN persistEmployeeId(s5, maybeEmployeeId.s) ELSE s5
        nextEmployeeId == IF takeEmployeeId THEN maybeEmployeeId.s ELSE derivedEmployeeId
    IN [st |-> s6, role |-> nextRole, institutionId |-> nextInstitutionId,
        employeeId |-> nextEmployeeId]

\* applyAuthResponse treating a response that is not an object as an empty
\* session: it removes the header and the three fields
applyAuthResponseNonObjectClears(st, response) ==
    IF ~response.object
    THEN [st |-> persistEmployeeId(persistRole(persistInstitutionId(
                    setAuthToken(st, NoToken), Null), Null), Null),
          role |-> Null, institutionId |-> Null, employeeId |-> Null]
    ELSE
    LET maybeToken == response.accessToken
        hasToken == NonEmptyToken(maybeToken)
        s0 == IF hasToken THEN setAuthToken(st, maybeToken.segs) ELSE st
        claims == IF hasToken THEN decodeJwt(maybeToken.segs) ELSE NoClaims
        \* if (claims): null, 0 and "" are falsy
        hasClaims == claims.t \in {"object", "number", "string", "array"}
        derivedInstitutionId == IF hasClaims THEN StringOrNull(claims.institutionId) ELSE Null
        s1 == IF derivedInstitutionId # Null THEN persistInstitutionId(s0, derivedInstitutionId) ELSE s0
        derivedRole == IF hasClaims THEN RoleOrNull(claims.role) ELSE Null
        s2 == IF derivedRole # Null THEN persistRole(s1, derivedRole) ELSE s1
        derivedEmployeeId == IF hasClaims THEN StringOrNull(claims.sub) ELSE Null
        s3 == IF derivedEmployeeId # Null THEN persistEmployeeId(s2, derivedEmployeeId) ELSE s2
        \* body fallbacks
        maybeInstitutionId == JsOr(JsOr(response.institutionId, response.institution_id),
                                   response.user_institutionId)
        s4 == IF NonEmptyString(maybeInstitutionId)
              THEN persistInstitutionId(s3, maybeInstitutionId.s) ELSE s3
        nextInstitutionId == IF derivedInstitutionId # Null THEN derivedInstitutionId
                             ELSE StringOrNull(maybeInstitutionId)
        maybeRole == JsOr(response.role, response.user_role)
        takeRole == isEmployeeRole(maybeRole) /\ derivedRole = Null
        s5 == IF takeRole THEN persistRole(s4, maybeRole.s) ELSE s4
        nextRole == IF takeRole THEN maybeRole.s ELSE derivedRole
        maybeEmployeeId == JsOr(response.id, response.user_id)
        takeEmployeeId == NonEmptyString(maybeEmployeeId) /\ derivedEmployeeId = Null
        s6 == IF takeEmployeeId THEN persistEmployeeId(s5, maybeEmployeeId.s) ELSE s5
        nextEmployeeId == IF takeEmployeeId THEN maybeEmployeeId.s ELSE derivedEmployeeId
    IN [st |-> s6, role |-> nextRole, institutionId |-> nextInstitutionId,
        employeeId |-> nextEmployeeId]

\* AuthProvider.tsx: applyAuthResponse.  The result holds the session after
\* the call and the triple the call returns.
applyAuthResponse(st, response) ==
    IF ~response.object
    THEN [st |-> st, role |-> Null, institutionId |-> Null, employeeId |-> Null]
    ELSE
    LET maybeToken == response.accessToken
        hasToken == NonEmptyToken(maybeToken)
        s0 == IF hasToken THEN setAuthToken(st, maybeToken.segs) ELSE st
        claims == IF hasToken THEN decodeJwt(maybeToken.segs) ELSE NoClaims
        \* if (claims): null, 0 and "" are falsy
        hasClaims == claims.t \in {"object", "number", "string", "array"}
        derivedInstitutionId == IF hasClaims THEN StringOrNull(claims.institutionId) ELSE Null
        s1 == IF derivedInstitutionId # Null THEN persistInstitutionId(s0, derivedInstitutionId) ELSE s0
        derivedRole == IF hasClaims THEN RoleOrNull(claims.role) ELSE Null
        s2 == IF derivedRole # Null THEN persistRole(s1, derivedRole) ELSE s1
        derivedEmployeeId == IF hasClaims THEN StringOrNull(claims.sub) ELSE Null
        s3 == IF derivedEmployeeId # Null THEN persistEmployeeId(s2, derivedEmployeeId) ELSE s2
        \* body fallbacks
        maybeInstitutionId == JsOr(JsOr(response.institutionId, response.institution_id),
                                   response.user_institutionId)
        s4 == IF NonEmptyString(maybeInstitutionId)
              THEN persistInstitutionId(s3, maybeInstitutionId.s) ELSE s3
        nextInstitutionId == IF derivedInstitutionId # Null THEN derivedInstitutionId
                             ELSE StringOrNull(maybeInstitutionId)
        maybeRole == JsOr(response.role, response.user_role)
        takeRole == isEmployeeRole(maybeRole) /\ derivedRole = Null
        s5 == IF takeRole THEN persistRole(s4, maybeRole.s) ELSE s4
        nextRole == IF takeRole THEN maybeRole.s ELSE derivedRole
        maybeEmployeeId == JsOr(response.id, response.user_id)
        takeEmployeeId == NonEmptyString(maybeEmployeeId) /\ derivedEmployeeId = Null
        s6 == IF takeEmployeeId THEN persistEmployeeId(s5, maybeEmployeeId.s) ELSE s5
        nextEmployeeId == IF takeEmployeeId THEN maybeEmployeeId.s ELSE derivedEmployeeId
    IN [st |-> s6, role |-> nextRole, institutionId |-> nextInstitutionId,
        employeeId |-> nextEmployeeId]

\* An async operation's outcome: the session after it, and whether its
\* promise rejects (the error reaches the caller)
Outcome(st, thrown) == [st |-> st, thrown |-> thrown]

\* refresh whose catch block cleans up and does not re-throw
refreshSwallows(st, reply) ==
    LET s0 == interceptors(st, reply) IN
    IF Resolves(reply)
    THEN Outcome(setIsAuthenticated(applyAuthResponse(s0, reply.data).st, TRUE), FALSE)
    ELSE Outcome(persistEmployeeId(persistRole(persistInstitutionId(
                    setIsAuthenticated(setAuthToken(s0, NoToken), FALSE),
                    Null), Null), Null), FALSE)

\* AuthProvider.tsx: refresh, from the arrival of the reply on
refresh(st, reply) ==
    LET s0 == interceptors(st, reply) IN
    IF Resolves(reply)
    THEN Outcome(setIsAuthenticated(applyAuthResponse(s0, reply.data).st, TRUE), FALSE)
    ELSE Outcome(persistEmployeeId(persistRole(persistInstitutionId(
                    setIsAuthenticated(setAuthToken(s0, NoToken), FALSE),
                    Null), Null), Null), TRUE)

\* the mount effect with setInitializing(false) at the end of the try block
\* instead of in a finally block
bootEffectNoFinally(st, reply) ==
    LET r == refresh(st, reply) IN
    Outcome(IF r.thrown THEN r.st ELSE setInitializing(r.st, FALSE), FALSE)

\* AuthProvider.tsx: the mount effect, from the arrival of the reply on
bootEffect(st, reply) ==
    LET r == refresh(st, reply) IN
    Outcome(setInitializing(r.st, FALSE), FALSE)

\* login whose catch block re-throws without the local cleanup
loginNoCleanup(st, reply) ==
    LET s0 == interceptors(st, reply) IN
    IF Resolves(reply)
    THEN Outcome(setIsAuthenticated(applyAuthResponse(s0, reply.data).st, TRUE), FALSE)
    ELSE Outcome(s0, TRUE)

\* login that sets isAuthenticated only when the response carried a token
loginNeedsToken(st, reply) ==
    LET s0 == interceptors(st, reply) IN
    IF Resolves(reply)
    THEN Outcome(setIsAuthenticated(applyAuthResponse(s0, reply.data).st,
                                    reply.data.object /\ NonEmptyToken(reply.data.accessToken)),
                 FALSE)
    ELSE Outcome(persistEmployeeId(persistRole(persistInstitutionId(
                    setIsAuthenticated(setAuthToken(s0, NoToken), FALSE),
                    Null), Null), Null), TRUE)

\* login that shows the loading placeholder again when it fails
loginResetsInitializing(st, reply) ==
    LET s0 == interceptors(st, reply) IN
    IF Resolves(reply)
    THEN Outcome(setIsAuthenticated(applyAuthResponse(s0, reply.data).st, TRUE), FALSE)
    ELSE Outcome(setInitializing(persistEmployeeId(persistRole(persistInstitutionId(
                    setIsAuthenticated(setAuthToken(s0, NoToken), FALSE),
                    Null), Null), Null), TRUE), TRUE)

\* AuthProvider.tsx: login, from the arrival of the reply on
login(st, reply) ==
    LET s0 == interceptors(st, reply) IN
    IF Resolves(reply)
    THEN Outcome(setIsAuthenticated(applyAuthResponse(s0, reply.data).st, TRUE), FALSE)
    ELSE Outcome(persistEmployeeId(persistRole(persistInstitutionId(
                    setIsAuthenticated(setAuthToken(s0, NoToken), FALSE),
                    Null), Null), Null), TRUE)

\* logout with the cleanup after the await inside the try block, not in a
\* finally block
logoutCleanupInTry(st, reply) ==
    LET s0 == interceptors(st, reply) IN
    IF Resolves(reply)
    THEN Outcome(persistEmployeeId(persistRole(persistInstitutionId(
                    setIsAuthenticated(setAuthToken(s0, NoToken), FALSE),
                    Null), Null), Null), FALSE)
    ELSE Outcome(s0, TRUE)

\* AuthProvider.tsx: logout, from the arrival of the reply on
logout(st, reply) ==
    LET s0 == interceptors(st, reply) IN
    Outcome(persistEmployeeId(persistRole(persistInstitutionId(
               setIsAuthenticated(setAuthToken(s0, NoToken), FALSE),
               Null), Null), Null), ~Resolves(reply))

\* a resource service call that removes the credential when it completes
requestDropsCredential(st, reply) ==
    Outcome(setAuthToken(interceptors(st, reply), NoToken), ~Resolves(reply))

\* baseService.ts: get / post / put / patch / delete of a resource service,
\* from the arrival of the reply on
request(st, reply) == Outcome(interceptors(st, reply), ~Resolves(reply))

\* ------------------------------------------------------------------------
\* Remote calls
\* ------------------------------------------------------------------------
\* a call awaiting its reply: which operation awaits it, who called the
\* operation, and the Authorization header the request was sent with
Call(kind, caller, sentAuth) == [kind |-> kind, caller |-> caller, sentAuth |-> sentAuth]

NoResult == [kind |-> "none", caller |-> "none", status |-> 0, thrown |-> FALSE]
\* status 0: no response
Result(call, reply, thrown) ==
    [kind |-> call.kind, caller |-> call.caller,
     status |-> IF reply.hasResponse THEN reply.status ELSE 0, thrown |-> thrown]

Send(kind, caller) ==
    /\ pending' = pending (+) SetToBag({Call(kind, caller, authHeader)})
    /\ UNCHANGED << authHeader, isAuthenticated, initializing, institutionId, role,
                    employeeId, storage, lastResult, probe >>

Settle(call, reply, outcome) ==
    /\ pending' = pending (-) SetToBag({call})
    /\ Commit(outcome.st)
    /\ lastResult' = Result(call, reply, outcome.thrown)
    /\ UNCHANGED << bootRuns, probe >>

PendingCalls(kind, caller) ==
    {c \in BagToSet(pending) : c.kind = kind /\ c.caller = caller}

\* ------------------------------------------------------------------------
\* Initial state: the provider is constructed, its effects have not run
\* ------------------------------------------------------------------------
Stored(inst, r, emp) ==
    [k \in StorageKeys |-> CASE k = "institutionId" -> inst
                             [] k = "employeeRole" -> r
                             [] k = "employeeId" -> emp]

\* what an earlier page load may have left in localStorage
InitialStorages ==
    {Stored(Null, Null, Null),
     Stored("inst-9", "ADMIN", "emp-1"),
     Stored("inst-3", "SUPERADMIN", Null)}

Init ==
    /\ storage \in InitialStorages
    /\ authHeader = NoToken
    /\ isAuthenticated = FALSE
    /\ initializing = TRUE
    /\ institutionId = storage["institutionId"]
    /\ role = IF storage["employeeRole"] # Null /\ isEmployeeRole(Str(storage["employeeRole"]))
              THEN storage["employeeRole"] ELSE Null
    /\ employeeId = storage["employeeId"]
    /\ pending = EmptyBag
    /\ bootRuns = 0
    /\ lastResult = NoResult
    /\ probe = NoProbe

\* ------------------------------------------------------------------------
\* Actions
\* ------------------------------------------------------------------------
\* the mount effect runs and calls refresh(); under StrictMode it runs again
\* right after its first run, before anything else happens
BootEffectStart ==
    /\ bootRuns < StrictModeEffectRuns
    /\ bootRuns > 0 =>
          /\ lastResult = NoResult
          /\ BagCardinality(pending) = bootRuns
          /\ \A c \in BagToSet(pending) : c.caller = "boot"
    /\ bootRuns' = bootRuns + 1
    /\ Send("refresh", "boot")

BootEffectSettle ==
    \E call \in PendingCalls("refresh", "boot") : \E reply \in AuthReplies :
        Settle(call, reply, bootEffect(Session, reply))

\* a consumer of the context calls refresh()
RefreshStart ==
    /\ bootRuns > 0
    /\ BagCardinality(pending) < MaxPending
    /\ UNCHANGED bootRuns
    /\ Send("refresh", "ui")

RefreshSettle ==
    \E call \in PendingCalls("refresh", "ui") : \E reply \in AuthReplies :
        Settle(call, reply, refresh(Session, reply))

LoginStart ==
    /\ bootRuns > 0
    /\ BagCardinality(pending) < MaxPending
    /\ UNCHANGED bootRuns
    /\ Send("login", "ui")

LoginSettle ==
    \E call \in PendingCalls("login", "ui") : \E reply \in AuthReplies :
        Settle(call, reply, login(Session, reply))

LogoutStart ==
    /\ bootRuns > 0
    /\ BagCardinality(pending) < MaxPending
    /\ UNCHANGED bootRuns
    /\ Send("logout", "ui")

LogoutSettle ==
    \E call \in PendingCalls("logout", "ui") : \E reply \in PlainReplies :
        Settle(call, reply, logout(Session, reply))

\* a page calls a resource service
RequestStart ==
    /\ bootRuns > 0
    /\ BagCardinality(pending) < MaxPending
    /\ UNCHANGED bootRuns
    /\ Send("request", "ui")

RequestSettle ==
    \E call \in PendingCalls("request", "ui") : \E reply \in PlainReplies :
        Settle(call, reply, request(Session, reply))

Next ==
    \/ BootEffectStart
    \/ BootEffectSettle
    \/ RefreshStart
    \/ RefreshSettle
    \/ LoginStart
    \/ LoginSettle
    \/ LogoutStart
    \/ LogoutSettle
    \/ RequestStart
    \/ RequestSettle

Spec == Init /\ [][Next]_vars

\* the mount effect runs (the remote API is assumed to answer every request)
LiveSpec == Spec /\ WF_vars(BootEffectStart) /\ WF_vars(BootEffectSettle)

\* ------------------------------------------------------------------------
\* Route guard
\* ------------------------------------------------------------------------
\* a landing-route table that sends every role to the ADMIN home page
RoleDefaultRouteHome == [r \in EmployeeRoles |-> "/"]

\* roles.ts: ROLE_DEFAULT_ROUTE
ROLE_DEFAULT_ROUTE ==
    [r \in EmployeeRoles |-> CASE r = "ADMIN" -> "/"
                               [] r = "DISTRIBUTER" -> "/distribution"
                               [] r = "PUBLISHER" -> "/posts"
                               [] r = "DELIVERER" -> "/deliver"]

\* roles.ts: getDefaultRouteForRole
getDefaultRouteForRole(r) ==
    IF r = Null THEN "/"
    ELSE IF r \in DOMAIN ROLE_DEFAULT_ROUTE THEN ROLE_DEFAULT_ROUTE[r] ELSE "/"

\* ProtectedRoute deciding on isAuthenticated before initializing
ProtectedRouteAuthFirst(st, allowedRoles) ==
    IF ~st.isAuthenticated THEN "/login"
    ELSE IF st.initializing THEN "loading"
    ELSE IF allowedRoles # {} /\ (st.role = Null \/ st.role \notin allowedRoles)
         THEN IF st.role # Null THEN getDefaultRouteForRole(st.role) ELSE "/unauthorized"
    ELSE "outlet"

\* part_001: ProtectedRoute.  allowedRoles is the set of the roles in the
\* prop ({} when the prop is absent or empty).  The result is "loading",
\* "outlet" or the path of the <Navigate>.
ProtectedRoute(st, allowedRoles) ==
    IF st.initializing THEN "loading"
    ELSE IF ~st.isAuthenticated THEN "/login"
    ELSE IF allowedRoles # {} /\ (st.role = Null \/ st.role \notin allowedRoles)
         THEN IF st.role # Null THEN getDefaultRouteForRole(st.role) ELSE "/unauthorized"
    ELSE "outlet"

\* AppRouter.tsx: the allow-lists of the guarded route groups
GuardedAllowLists == {{"ADMIN"}, {"DELIVERER"}, {"PUBLISHER"}, {"DISTRIBUTER"}}

\* ------------------------------------------------------------------------
\* Properties
\* ------------------------------------------------------------------------
\* this step delivers the reply to a call
Settled == BagCardinality(pending') = BagCardinality(pending) - 1
SettledOf(kind) == Settled /\ lastResult'.kind = kind
\* the reply delivered was rejected by axios
Failed(result) == result.status < 200 \/ result.status >= 300

\* the full local cleanup: credential, flag, session fields in memory and
\* in storage
Cleaned ==
    /\ authHeader = NoToken
    /\ isAuthenticated = FALSE
    /\ institutionId = Null /\ role = Null /\ employeeId = Null
    /\ \A k \in StorageKeys : storage[k] = Null

BootCallPending == PendingCalls("refresh", "boot") # {}

\* C1: in every reachable state isAuthenticated is true iff the default
\* Authorization header is present.
C1_AuthIffHeader == isAuthenticated <=> (authHeader # NoToken)

\* C2: when the session is authenticated and any request receives a 401, the
\* credential is cleared, isAuthenticated becomes false, the three session
\* fields are cleared in memory and storage, and the route guard's decision
\* on a protected route is the redirect to /login.
C2_401Unauthenticates ==
    [][(isAuthenticated /\ ~initializing /\ Settled /\ lastResult'.status = 401)
         => /\ Cleaned'
            /\ \A allowed \in GuardedAllowLists :
                  ProtectedRoute(Session', allowed) = "/login"]_vars

\* C3: every run of the response error interceptor with status 401 leaves
\* the default Authorization header absent, whichever call it was for and
\* whatever credential was installed.
C3_401ClearsHeader ==
    [][(Settled /\ lastResult'.status = 401) => authHeader' = NoToken]_vars

\* C3 witness: a resource request of an authenticated session got a 401 and
\* the header is gone.
C3_Witness ==
    /\ lastResult.kind = "request" /\ lastResult.status = 401
    /\ isAuthenticated /\ authHeader = NoToken

\* C4: when logout settles, with the remote call resolved or rejected, the
\* full local cleanup has been done; a rejection still reaches the caller.
C4_LogoutCleansUp ==
    [][SettledOf("logout")
         => /\ Cleaned'
            /\ Failed(lastResult') => lastResult'.thrown]_vars

\* C4 witness: a logout whose remote call failed has settled.
C4_Witness ==
    /\ lastResult.kind = "logout" /\ lastResult.status = 500 /\ lastResult.thrown
    /\ Cleaned

\* C5: when login fails (rejected by the server, or no response), the
\* session is unauthenticated and fully cleaned up and the failure is
\* re-thrown, whatever the state before.
C5_LoginFailureCleansUp ==
    [][(SettledOf("login") /\ Failed(lastResult'))
         => Cleaned' /\ lastResult'.thrown]_vars

\* C5 witness: a login failed while a request sent under an established
\* session's credential is still awaiting its reply.
C5_Witness ==
    /\ lastResult.kind = "login" /\ Failed(lastResult) /\ lastResult.thrown
    /\ Cleaned
    /\ \E c \in BagToSet(pending) : c.sentAuth # NoToken

\* C6: when refresh fails the full local cleanup is done; the error reaches
\* the caller of an explicit refresh() or login(), and only the mount effect
\* swallows it.
C6_RefreshFailure ==
    [][/\ (SettledOf("refresh") /\ Failed(lastResult'))
            => Cleaned' /\ (lastResult'.thrown <=> lastResult'.caller # "boot")
       /\ (SettledOf("login") /\ Failed(lastResult')) => lastResult'.thrown]_vars

\* C6 witness: the boot-time refresh failed, the cleanup is done and the
\* error was swallowed.
C6_Witness ==
    /\ lastResult.kind = "refresh" /\ lastResult.caller = "boot"
    /\ Failed(lastResult) /\ ~lastResult.thrown
    /\ Cleaned

\* C7: isAuthenticated starts false; it becomes true only in a step in which
\* a login or refresh call resolves, and every login or refresh call that
\* resolves (2xx, whatever the body) sets it.
C7_AuthenticatedOnlyBySuccess ==
    /\ isAuthenticated = FALSE
    /\ [][/\ (~isAuthenticated /\ isAuthenticated')
               => (SettledOf("login") \/ SettledOf("refresh")) /\ ~Failed(lastResult')
          /\ ((SettledOf("login") \/ SettledOf("refresh")) /\ ~Failed(lastResult'))
               => isAuthenticated']_vars

\* C7 witness: a login resolved with a body that carried no token.
C7_Witness ==
    /\ lastResult.kind = "login" /\ lastResult.status = 200
    /\ isAuthenticated /\ authHeader = NoToken

\* C8: initializing starts true and, the boot refresh settling, ends false
\* for good, whether the refresh succeeds or fails and also when the mount
\* effect runs twice.
C8_InitializingEnds ==
    /\ initializing = TRUE
    /\ <>[](initializing = FALSE)

\* C8 witness: the mount effect ran twice, both refresh calls have settled,
\* the last with a failure, and initializing is false.
C8_Witness ==
    /\ bootRuns = StrictModeEffectRuns /\ ~BootCallPending
    /\ lastResult.caller = "boot" /\ Failed(lastResult)
    /\ ~initializing

\* C9: initializing changes only from true to false and only when a
\* boot-time refresh settles; no login, logout or explicit refresh changes it.
C9_InitializingMonotone ==
    [][(initializing' # initializing)
         => /\ initializing /\ ~initializing'
            /\ Settled /\ lastResult'.caller = "boot"]_vars

\* C9 witness: a login failed after initializing had become false.
C9_Witness ==
    /\ ~initializing
    /\ lastResult.kind = "login" /\ Failed(lastResult)

\* C10: initializing is never false while a boot-time refresh call is still
\* awaiting its reply, also when the mount effect runs more than once.
C10_NoBootCallAfterInitializing == ~initializing => ~BootCallPending

\* ------------------------------------------------------------------------
\* applyAuthResponse applied to every response shape
\* ------------------------------------------------------------------------
\* how many times in a row the same response is applied
MaxApplies == 2

\* a number where the token string is expected
NumberTokenField == [t |-> "number", segs |-> << >>]
\* the payload is not base64
TokenOpaque == << OpaqueSeg, BadB64Seg, OpaqueSeg >>
\* claims {sub: 7, role: "SUPERADMIN", institutionId: ""}
TokenBadClaims == << OpaqueSeg, B64Seg(JsonObject(Num7, Str("SUPERADMIN"), Str(""))), OpaqueSeg >>

DeriveTokenFields ==
    {NoTokenField, NumberTokenField, TokenField(<< EmptySeg >>),
     TokenField(TokenAdmin), TokenField(TokenPublisher),
     TokenField(TokenOpaque), TokenField(TokenBadClaims)}

\* every body built from these field values
DeriveResponses ==
    {NotAnObject} \cup
    {Body(TRUE, tok, inst, instObjId, userInst, r, userRole, id, userId) :
        tok \in DeriveTokenFields,
        inst \in {Undef, Str(""), Num7, Str("inst-3")},
        instObjId \in {Undef, Num7, Str("inst-4")},
        userInst \in {Undef, Str("inst-5")},
        r \in {Undef, Str("SUPERADMIN"), Str("ADMIN")},
        userRole \in {Undef, Str("SUPERADMIN"), Str("DELIVERER")},
        id \in {Undef, Num7, Str("emp-2")},
        userId \in {Undef, Str("emp-3")}}

\* a session of which all fields are given
SessionOf(header, auth, init, inst, r, emp, store) ==
    [authHeader |-> header, isAuthenticated |-> auth, initializing |-> init,
     institutionId |-> inst, role |-> r, employeeId |-> emp, storage |-> store]

\* the sessions applyAuthResponse is called in: nothing stored; an invalid
\* role left in storage and loaded as null; a session established by
\* RespTokenAdmin
DerivePriors ==
    {SessionOf(NoToken, FALSE, FALSE, Null, Null, Null, Stored(Null, Null, Null)),
     SessionOf(NoToken, FALSE, FALSE, "inst-3", Null, Null, Stored("inst-3", "SUPERADMIN", Null)),
     SessionOf(TokenAdmin, TRUE, FALSE, "inst-9", "ADMIN", "emp-1", Stored("inst-9", "ADMIN", "emp-1"))}

\* the session variables have the values of st
SessionIs(st) ==
    /\ authHeader = st.authHeader
    /\ isAuthenticated = st.isAuthenticated
    /\ initializing = st.initializing
    /\ institutionId = st.institutionId
    /\ role = st.role
    /\ employeeId = st.employeeId
    /\ storage = st.storage

DeriveInit ==
    /\ \E st \in DerivePriors : SessionIs(st)
    /\ pending = EmptyBag
    /\ bootRuns = 1
    /\ lastResult = NoResult
    /\ probe = NoProbe

Applied(before, response, a, times) ==
    [fn |-> "applyAuthResponse", before |-> before, response |-> response,
     role |-> a.role, institutionId |-> a.institutionId, employeeId |-> a.employeeId,
     times |-> times]

\* applyAuthResponse(response) is called
ApplyResponse ==
    /\ probe = NoProbe
    /\ \E response \in DeriveResponses :
          LET a == applyAuthResponse(Session, response) IN
          /\ Commit(a.st)
          /\ probe' = Applied(Session, response, a, 1)
    /\ UNCHANGED << pending, bootRuns, lastResult >>

\* applyAuthResponse is called again with the same response
ApplyAgain ==
    /\ probe.fn = "applyAuthResponse"
    /\ probe.times < MaxApplies
    /\ LET a == applyAuthResponse(Session, probe.response) IN
       /\ Commit(a.st)
       /\ probe' = Applied(probe.before, probe.response, a, probe.times + 1)
    /\ UNCHANGED << pending, bootRuns, lastResult >>

DeriveNext ==
    \/ ApplyResponse
    \/ ApplyAgain

DeriveSpec == DeriveInit /\ [][DeriveNext]_vars

\* applyAuthResponse has been applied
HasApplied == probe.fn = "applyAuthResponse"

\* what the token of the applied response decodes to
AppliedClaims ==
    IF probe.response.object /\ NonEmptyToken(probe.response.accessToken)
    THEN decodeJwt(probe.response.accessToken.segs) ELSE NoClaims

\* C11: after applyAuthResponse(R) the persisted role, institutionId and
\* employeeId equal the returned triple, a null field meaning no stored key.
C11_StoredEqualsReturned ==
    HasApplied =>
        /\ storage["employeeRole"] = probe.role
        /\ storage["institutionId"] = probe.institutionId
        /\ storage["employeeId"] = probe.employeeId

\* C12: after applyAuthResponse(R) the default Authorization header is set
\* iff R contained a non-empty bearer token.
C12_HeaderIffToken ==
    HasApplied =>
        ((authHeader # NoToken)
            <=> (probe.response.object /\ NonEmptyToken(probe.response.accessToken)))

\* a value is a role of the enum
InEnum(v) == v.t = "string" /\ v.s \in EmployeeRoles
\* a value is a role name outside the enum
OutOfEnum(v) == v.t = "string" /\ v.s # "" /\ v.s \notin EmployeeRoles

\* C13: for each of role, institutionId and employeeId, when the credential
\* decodes to a valid value for the field, the returned value is the claims'
\* value, whatever the body carries for it.
C13_ClaimsWin ==
    HasApplied =>
        /\ InEnum(AppliedClaims.role) => probe.role = AppliedClaims.role.s
        /\ NonEmptyString(AppliedClaims.institutionId)
               => probe.institutionId = AppliedClaims.institutionId.s
        /\ NonEmptyString(AppliedClaims.sub) => probe.employeeId = AppliedClaims.sub.s

\* C13 witness: claims with role PUBLISHER and sub emp-1, a body with role
\* ADMIN and id emp-2; PUBLISHER and emp-1 are returned.
C13_Witness ==
    /\ HasApplied
    /\ AppliedClaims.role = Str("PUBLISHER") /\ probe.response.role = Str("ADMIN")
    /\ AppliedClaims.sub = Str("emp-1") /\ probe.response.id = Str("emp-2")
    /\ probe.role = "PUBLISHER" /\ probe.employeeId = "emp-1"

\* the first of the candidate locations, in declared order, that holds a
\* usable value
FirstString3(a, b, c) ==
    IF NonEmptyString(a) THEN a.s
    ELSE IF NonEmptyString(b) THEN b.s
    ELSE IF NonEmptyString(c) THEN c.s ELSE Null
FirstString2(a, b) ==
    IF NonEmptyString(a) THEN a.s ELSE IF NonEmptyString(b) THEN b.s ELSE Null
FirstRole2(a, b) ==
    IF InEnum(a) THEN a.s ELSE IF InEnum(b) THEN b.s ELSE Null

\* C14: when the claims do not supply a field, the returned value is the
\* first usable one among the body locations in declared order; an earlier
\* location with an unusable value does not block a later usable one.
C14_FirstUsableFallback ==
    (HasApplied /\ probe.response.object) =>
        /\ ~NonEmptyString(AppliedClaims.institutionId)
              => probe.institutionId = FirstString3(probe.response.institutionId,
                                                    probe.response.institution_id,
                                                    probe.response.user_institutionId)
        /\ ~InEnum(AppliedClaims.role)
              => probe.role = FirstRole2(probe.response.role, probe.response.user_role)
        /\ ~NonEmptyString(AppliedClaims.sub)
              => probe.employeeId = FirstString2(probe.response.id, probe.response.user_id)

\* the applied response carries an out-of-enum role in one of its role
\* locations
CarriesOutOfEnumRole ==
    /\ probe.response.object
    /\ \/ OutOfEnum(AppliedClaims.role)
       \/ OutOfEnum(probe.response.role)
       \/ OutOfEnum(probe.response.user_role)

\* C15: a response carrying an out-of-enum role in any of its role locations
\* never results in a non-null persisted role.
C15_OutOfEnumRoleNothingStored ==
    (HasApplied /\ CarriesOutOfEnumRole) => storage["employeeRole"] = Null

\* C15 as amended: applying a response that carries an out-of-enum role never
\* writes that value: the persisted role is what was stored before the call,
\* or the in-enum role the call returns.
C15_OutOfEnumRoleNeverWritten ==
    (HasApplied /\ CarriesOutOfEnumRole) =>
        \/ storage["employeeRole"] = probe.before.storage["employeeRole"]
        \/ /\ storage["employeeRole"] \in EmployeeRoles
           /\ storage["employeeRole"] = probe.role

\* C15 witness: the claims' role is SUPERADMIN and the top-level role is
\* ADMIN; no role was stored before the call and ADMIN is stored after it.
C15_Witness ==
    /\ HasApplied
    /\ AppliedClaims.role = Str("SUPERADMIN") /\ probe.response.role = Str("ADMIN")
    /\ probe.before.storage["employeeRole"] = Null
    /\ storage["employeeRole"] = "ADMIN" /\ role = "ADMIN"

\* C16: the in-memory role is always null or a role of the enum, and no step
\* writes an out-of-enum value to the stored role.
C16_RoleAlwaysInEnum ==
    /\ [](role \in EmployeeRoles \cup {Null})
    /\ [][storage'["employeeRole"] # storage["employeeRole"]
            => storage'["employeeRole"] \in EmployeeRoles \cup {Null}]_vars

\* C16 witness: the page loaded with an out-of-enum stored role, then a
\* response with top-level role SUPERADMIN was applied; the role is null.
C16_Witness ==
    /\ isAuthenticated
    /\ institutionId = "inst-7"
    /\ storage["employeeRole"] = "SUPERADMIN"
    /\ role = Null

\* C17: applying the same response a second time changes neither the
\* persisted role, institutionId and employeeId nor the credential header.
C17_ApplyIdempotent ==
    [][(HasApplied /\ probe'.times = probe.times + 1)
          => storage' = storage /\ authHeader' = authHeader]_vars

\* C17 witness: a response with claims and body values for the same fields
\* has been applied twice.
C17_Witness ==
    /\ HasApplied /\ probe.times = 2
    /\ AppliedClaims.role = Str("PUBLISHER") /\ probe.response.role = Str("ADMIN")
    /\ AppliedClaims.sub = Str("emp-1") /\ probe.response.id = Str("emp-2")
    /\ probe.response.institutionId = Str("inst-3")
    /\ storage = Stored("inst-3", "PUBLISHER", "emp-1")

\* C21: applying a response that is not an object returns (null, null, null)
\* and leaves storage, the in-memory session fields and the credential header
\* as they were.
C21_NonObjectNoOp ==
    (HasApplied /\ ~probe.response.object) =>
        /\ probe.role = Null /\ probe.institutionId = Null /\ probe.employeeId = Null
        /\ Session = probe.before

\* C21 witness: a response that is not an object was applied to an
\* established session, which is still there.
C21_Witness ==
    /\ HasApplied /\ ~probe.response.object
    /\ probe.before.authHeader = TokenAdmin
    /\ authHeader = TokenAdmin
    /\ storage = Stored("inst-9", "ADMIN", "emp-1")

\* ------------------------------------------------------------------------
\* The route guard as a function: ProtectedRoute renders in any session
\* state, with any allowedRoles prop
\* ------------------------------------------------------------------------
\* the session states the guard can be rendered in
GuardSessions ==
    {SessionOf(IF auth THEN TokenAdmin ELSE NoToken, auth, init, Null, r, Null,
               Stored(Null, r, Null)) :
        auth \in BOOLEAN, init \in BOOLEAN, r \in EmployeeRoles \cup {Null}}

GuardInit ==
    /\ \E st \in GuardSessions : SessionIs(st)
    /\ pending = EmptyBag
    /\ bootRuns = 1
    /\ lastResult = NoResult
    /\ probe = NoProbe

\* <ProtectedRoute allowedRoles={...} /> renders
Render ==
    /\ \E allowedRoles \in SUBSET EmployeeRoles :
          probe' = [fn |-> "ProtectedRoute", allowedRoles |-> allowedRoles,
                    decision |-> ProtectedRoute(Session, allowedRoles)]
    /\ UNCHANGED << authHeader, isAuthenticated, initializing, institutionId, role,
                    employeeId, storage, pending, bootRuns, lastResult >>

GuardNext == Render

GuardSpec == GuardInit /\ [][GuardNext]_vars

\* the guard has rendered
HasRendered == probe.fn = "ProtectedRoute"

\* the role is refused by the allow-list of the rendered guard
RoleRefused ==
    probe.allowedRoles # {} /\ (role = Null \/ role \notin probe.allowedRoles)

\* the landing route of the current role
LandingRoute ==
    CASE role = "ADMIN" -> "/"
      [] role = "DISTRIBUTER" -> "/distribution"
      [] role = "PUBLISHER" -> "/posts"
      [] role = "DELIVERER" -> "/deliver"
      [] OTHER -> "none"

\* C18: the guard decides loading when initializing; else /login when not
\* authenticated; else, when the allow-list is non-empty and the role is null
\* or not in it, the role's landing route if a role exists and /unauthorized
\* otherwise; else it renders.  While initializing it neither renders the
\* protected content nor redirects.
C18_GuardDecision ==
    HasRendered =>
        /\ initializing => probe.decision = "loading"
        /\ (~initializing /\ ~isAuthenticated) => probe.decision = "/login"
        /\ (~initializing /\ isAuthenticated /\ RoleRefused /\ role # Null)
              => probe.decision = LandingRoute
        /\ (~initializing /\ isAuthenticated /\ RoleRefused /\ role = Null)
              => probe.decision = "/unauthorized"
        /\ (~initializing /\ isAuthenticated /\ ~RoleRefused)
              => probe.decision = "outlet"

\* C18 witness: an authenticated PUBLISHER on the ADMIN routes is sent to
\* /posts.
C18_Witness ==
    /\ HasRendered
    /\ ~initializing /\ isAuthenticated /\ role = "PUBLISHER"
    /\ probe.allowedRoles = {"ADMIN"}
    /\ probe.decision = "/posts"

\* ------------------------------------------------------------------------
\* The response error interceptor as a function: a request fails with any
\* error reply, in a session with or without a credential
\* ------------------------------------------------------------------------
FailureStatuses == {400, 401, 404, 500}

\* the bodies of the error replies
ErrorBodies ==
    {NoErrorData} \cup
    {ErrorData(TRUE, m, e, t) :
        m \in {Undef, Str(""), Str("message text")},
        e \in {Undef, Str(""), Str("error text")},
        t \in {Undef, Str(""), Str("title text")}}

FailureReplies ==
    {Reply(TRUE, s, d) : s \in FailureStatuses, d \in ErrorBodies}
        \cup {Reply(FALSE, 0, NoErrorData)}

ErrorInit ==
    /\ \E st \in DerivePriors : SessionIs(st)
    /\ pending = EmptyBag
    /\ bootRuns = 1
    /\ lastResult = NoResult
    /\ probe = NoProbe

\* a request fails and the response error interceptor rejects it
Reject ==
    /\ \E reply \in FailureReplies :
          /\ Commit(responseError(Session, reply))
          /\ probe' = [fn |-> "responseError", reply |-> reply,
                       error |-> rejectionOf(reply)]
    /\ UNCHANGED << pending, bootRuns, lastResult >>

ErrorNext == Reject

ErrorSpec == ErrorInit /\ [][ErrorNext]_vars

\* a request has been rejected
HasRejected == probe.fn = "responseError"

\* a candidate field is present: it holds a non-empty value
Present(v) == v # Undef /\ v # Str("")

\* the first present of message, error, title of an object body
FirstPresent(data) ==
    IF data.object /\ Present(data.message) THEN data.message
    ELSE IF data.object /\ Present(data.error) THEN data.error
    ELSE IF data.object /\ Present(data.title) THEN data.title
    ELSE Str("unexpected error")

\* C19: a failed request is rejected with an ApiError; when the server
\* responded it carries the status, the raw body and the first present of
\* body.message, body.error, body.title, else the generic message; when no
\* response was received it carries the cannot-reach-server message and no
\* status.
C19_UniformApiError ==
    HasRejected =>
        /\ probe.error.name = "ApiError"
        /\ probe.reply.hasResponse =>
              /\ probe.error.status = [t |-> "number", n |-> probe.reply.status]
              /\ probe.error.details = probe.reply.data
              /\ probe.error.message = FirstPresent(probe.reply.data)
        /\ ~probe.reply.hasResponse =>
              /\ probe.error.status.t = "undefined"
              /\ probe.error.message = Str("cannot reach server")

\* C19 witness: a 500 whose body has no message, an empty error and a title
\* is rejected with the title as message.
C19_Witness ==
    /\ HasRejected
    /\ probe.reply.hasResponse /\ probe.reply.status = 500
    /\ probe.reply.data = ErrorData(TRUE, Undef, Str(""), Str("title text"))
    /\ probe.error.message = Str("title text")

\* C30: an error response with a status other than 401 and a failure without
\* response leave the default Authorization header as it was; the response
\* error interceptor changes the header only for status 401.
C30_Only401ChangesHeader ==
    [][(authHeader' # authHeader)
         => (probe'.reply.hasResponse /\ probe'.reply.status = 401)]_vars

\* C30 witness: requests of an established session failed with status 500
\* and without response, and the header is still installed.
C30_Witness ==
    /\ HasRejected
    /\ ~probe.reply.hasResponse \/ probe.reply.status = 500
    /\ authHeader = TokenAdmin

\* ------------------------------------------------------------------------
\* Overlapping calls: after the boot, login, refresh and logout are called
\* again before the earlier calls have settled; the replies then arrive in
\* any order
\* ------------------------------------------------------------------------
MaxRaceCalls == 2

RaceKinds == {"login", "refresh", "logout"}

\* the session the overlapping calls start in: the boot found no session
RaceInit ==
    /\ SessionIs(SessionOf(NoToken, FALSE, FALSE, Null, Null, Null,
                           Stored(Null, Null, Null)))
    /\ pending = EmptyBag
    /\ bootRuns = 1
    /\ lastResult = NoResult
    /\ probe = [fn |-> "race", before |-> Session, started |-> 0, resolved |-> 0,
                alone |-> Session]

\* the operation of a call, from the arrival of its reply on
Handle(kind, st, reply) ==
    CASE kind = "login" -> login(st, reply)
      [] kind = "refresh" -> refresh(st, reply)
      [] kind = "logout" -> logout(st, reply)

RepliesTo(kind) == IF kind = "logout" THEN PlainReplies ELSE AuthReplies

\* login, refresh or logout is called while no reply has arrived yet
RaceStart ==
    /\ probe.started < MaxRaceCalls
    /\ probe.resolved = 0
    /\ \E kind \in RaceKinds :
          pending' = pending (+) SetToBag({Call(kind, "ui", authHeader)})
    /\ probe' = [probe EXCEPT !.started = @ + 1]
    /\ UNCHANGED << authHeader, isAuthenticated, initializing, institutionId, role,
                    employeeId, storage, bootRuns, lastResult >>

\* the reply to one of the calls arrives
RaceSettle ==
    /\ \E call \in BagToSet(pending) : \E reply \in RepliesTo(call.kind) :
          LET outcome == Handle(call.kind, Session, reply) IN
          /\ pending' = pending (-) SetToBag({call})
          /\ Commit(outcome.st)
          /\ lastResult' = Result(call, reply, outcome.thrown)
          /\ probe' = [probe EXCEPT !.resolved = @ + 1,
                                    !.alone = Handle(call.kind, probe.before, reply).st]
    /\ UNCHANGED bootRuns

RaceNext ==
    \/ RaceStart
    \/ RaceSettle

RaceSpec == RaceInit /\ [][RaceNext]_vars

\* overlapping calls have all settled
RaceOver ==
    /\ probe.fn = "race"
    /\ probe.started >= 2
    /\ probe.resolved = probe.started

\* C20: when overlapping login/logout/refresh calls have all settled, the
\* session fields, the credential and isAuthenticated are those the call
\* whose reply arrived last produces from its reply.
C20_LastResolvedWins ==
    RaceOver =>
        /\ authHeader = probe.alone.authHeader
        /\ isAuthenticated = probe.alone.isAuthenticated
        /\ institutionId = probe.alone.institutionId
        /\ role = probe.alone.role
        /\ employeeId = probe.alone.employeeId
        /\ storage = probe.alone.storage

\* ------------------------------------------------------------------------
\* The token codec as a function: decodeJwt is applied to any token string
\* ------------------------------------------------------------------------
MaxSegments == 4

\* JSON texts that are not objects: a number, a string, an array
JsonNumber == [t |-> "number", sub |-> Undef, role |-> Undef, institutionId |-> Undef]
JsonString == [t |-> "string", sub |-> Undef, role |-> Undef, institutionId |-> Undef]
JsonArray == [t |-> "array", sub |-> Undef, role |-> Undef, institutionId |-> Undef]

\* what the second segment can be
PayloadSegs ==
    {EmptySeg, BadB64Seg, OpaqueSeg,
     B64Seg(JsonObject(Str("emp-1"), Str("ADMIN"), Str("inst-9"))),
     B64Seg(JsonNull), B64Seg(JsonNumber), B64Seg(JsonString), B64Seg(JsonArray)}

\* the token strings: one to MaxSegments segments ("" is one empty segment)
CodecTokens ==
    {t \in UNION {[1..n -> PayloadSegs] : n \in 1..MaxSegments} :
        \A i \in DOMAIN t : i # 2 => t[i] \in {EmptySeg, OpaqueSeg}}

CodecInit ==
    /\ SessionIs(SessionOf(NoToken, FALSE, FALSE, Null, Null, Null,
                           Stored(Null, Null, Null)))
    /\ pending = EmptyBag
    /\ bootRuns = 1
    /\ lastResult = NoResult
    /\ probe = NoProbe

\* decodeJwt(token) is called
Decode ==
    /\ \E token \in CodecTokens :
          probe' = [fn |-> "decodeJwt", token |-> token, result |-> decodeJwt(token)]
    /\ UNCHANGED << authHeader, isAuthenticated, initializing, institutionId, role,
                    employeeId, storage, pending, bootRuns, lastResult >>

CodecNext == Decode

CodecSpec == CodecInit /\ [][CodecNext]_vars

\* decodeJwt has been called
HasDecoded == probe.fn = "decodeJwt"

\* the token has exactly three segments and the middle one decodes to a JSON
\* object
WellFormedToken(token) ==
    /\ Len(token) = 3
    /\ token[2].kind = "b64"
    /\ token[2].json.t = "object"

\* C22: decodeJwt returns the parsed claims only for a string of exactly
\* three segments whose middle segment decodes to a JSON object, and null for
\* every other input.
C22_CodecStrict ==
    HasDecoded =>
        IF WellFormedToken(probe.token)
        THEN probe.result = probe.token[2].json
        ELSE probe.result = NoClaims

\* ------------------------------------------------------------------------
\* Further properties of the Auth Context state machine
\* ------------------------------------------------------------------------
\* C23: the credential header, isAuthenticated and the persisted and
\* in-memory session fields change only when a login, logout or refresh
\* settles or a reply with status 401 arrives; a resource service call that
\* completes successfully leaves them all unchanged.
C23_OnlyAuthContextWrites ==
    [][(Session' # Session)
         => /\ Settled
            /\ \/ lastResult'.kind \in {"login", "logout", "refresh"}
               \/ lastResult'.status = 401]_vars

\* C23 witness: a resource service call completed successfully in an
\* established session, which is still there.
C23_Witness ==
    /\ lastResult.kind = "request" /\ lastResult.status = 200
    /\ isAuthenticated /\ authHeader = TokenAdmin
    /\ storage = Stored("inst-9", "ADMIN", "emp-1")

\* C27: the in-memory institutionId and employeeId equal the stored values
\* (null iff the key is absent) and the in-memory role equals the stored role
\* validated against the enum, after every Auth Context operation.
C27_MemoryMatchesStorage ==
    /\ institutionId = storage["institutionId"]
    /\ employeeId = storage["employeeId"]
    /\ role = IF storage["employeeRole"] \in EmployeeRoles
              THEN storage["employeeRole"] ELSE Null

\* C27 witness: a login whose response supplied all three fields has
\* settled.
C27_Witness ==
    /\ lastResult.kind = "login" /\ lastResult.status = 200
    /\ storage = Stored("inst-3", "PUBLISHER", "emp-1")
    /\ role = "PUBLISHER" /\ institutionId = "inst-3" /\ employeeId = "emp-1"

\* the step settles a call that was sent carrying the credential installed
\* now
SettledCarriedCredential ==
    \E c \in BagToSet(pending) :
        /\ pending' = pending (-) SetToBag({c})
        /\ c.sentAuth = authHeader

\* C24: an installed credential is removed only by a logout, by a failed
\* login or refresh, or by a 401 reply to a request that was sent carrying
\* that same credential.
C24_CredentialRemovedOnlyByOwn401 ==
    [][(authHeader # NoToken /\ authHeader' = NoToken)
         => /\ Settled
            /\ \/ lastResult'.kind = "logout"
               \/ lastResult'.kind \in {"login", "refresh"} /\ Failed(lastResult')
               \/ lastResult'.status = 401 /\ SettledCarriedCredential]_vars

\* the step applies response d: the session after it is the one
\* applyAuthResponse(d) leaves, authenticated
StepApplies(d) ==
    LET st == setIsAuthenticated(applyAuthResponse(Session, d).st, TRUE) IN
    /\ authHeader' = st.authHeader
    /\ isAuthenticated' = st.isAuthenticated
    /\ institutionId' = st.institutionId
    /\ role' = st.role
    /\ employeeId' = st.employeeId
    /\ storage' = st.storage

\* after the step every session field, in memory and stored, is the value
\* derived from response d
FieldsBelongTo(d) ==
    LET a == applyAuthResponse(Session, d) IN
    /\ role' = a.role /\ storage'["employeeRole"] = a.role
    /\ institutionId' = a.institutionId /\ storage'["institutionId"] = a.institutionId
    /\ employeeId' = a.employeeId /\ storage'["employeeId"] = a.employeeId

\* C25: after a successful login or refresh the in-memory and persisted
\* role, institutionId and employeeId are the values derived from the
\* response just applied, null where it supplies none.
C25_FieldsBelongToResponse ==
    [][(Settled /\ lastResult'.kind \in {"login", "refresh"} /\ ~Failed(lastResult'))
         => \E d \in AuthResponses : StepApplies(d) /\ FieldsBelongTo(d)]_vars

\* ------------------------------------------------------------------------
\* Navigation: the router resolves a requested route in a settled auth
\* state, following the redirects of the route guard, the Login page and the
\* catch-all route
\* ------------------------------------------------------------------------
MaxRedirects == 4

\* AppRouter.tsx: one path per route of the table, "/elsewhere" for a path
\* only the catch-all route matches
AppPaths ==
    {"/login", "/unauthorized", "/", "/employees", "/deliver", "/posts",
     "/distribution", "/elsewhere"}

\* AppRouter.tsx: the allow-list of the guard a path lies under
AllowListOf(path) ==
    CASE path \in {"/", "/employees"} -> {"ADMIN"}
      [] path = "/deliver" -> {"DELIVERER"}
      [] path = "/posts" -> {"PUBLISHER"}
      [] path = "/distribution" -> {"DISTRIBUTER"}

\* what the element of the matched route does: render a screen, or navigate
Screen == [redirect |-> FALSE, to |-> "none"]
NavigateTo(path) == [redirect |-> TRUE, to |-> path]

\* Login page: the redirect effect for authenticated users
LoginPage(st) ==
    IF ~st.initializing /\ st.isAuthenticated
    THEN NavigateTo(getDefaultRouteForRole(st.role))
    ELSE Screen

\* AppRouter.tsx: the element rendered for a path
AppRouter(st, path) ==
    CASE path = "/login" -> LoginPage(st)
      [] path = "/unauthorized" -> Screen
      [] path \in {"/", "/employees", "/deliver", "/posts", "/distribution"} ->
            LET decision == ProtectedRoute(st, AllowListOf(path)) IN
            IF decision \in {"loading", "outlet"} THEN Screen ELSE NavigateTo(decision)
      [] OTHER -> NavigateTo("/login")

\* a route is requested in a settled auth state (initializing is false)
NavInit ==
    /\ \E st \in GuardSessions : ~st.initializing /\ SessionIs(st)
    /\ pending = EmptyBag
    /\ bootRuns = 1
    /\ lastResult = NoResult
    /\ \E path \in AppPaths :
          probe = [fn |-> "navigate", history |-> << path >>, rendered |-> FALSE]

\* the path the router is at
CurrentPath == probe.history[Len(probe.history)]

\* the matched element navigates to another path
Redirect ==
    /\ ~probe.rendered
    /\ Len(probe.history) <= MaxRedirects
    /\ AppRouter(Session, CurrentPath).redirect
    /\ probe' = [probe EXCEPT !.history = Append(@, AppRouter(Session, CurrentPath).to)]
    /\ UNCHANGED << authHeader, isAuthenticated, initializing, institutionId, role,
                    employeeId, storage, pending, bootRuns, lastResult >>

\* the matched element renders its screen
RenderScreen ==
    /\ ~probe.rendered
    /\ ~AppRouter(Session, CurrentPath).redirect
    /\ probe' = [probe EXCEPT !.rendered = TRUE]
    /\ UNCHANGED << authHeader, isAuthenticated, initializing, institutionId, role,
                    employeeId, storage, pending, bootRuns, lastResult >>

NavNext ==
    \/ Redirect
    \/ RenderScreen

\* React Router resolves the navigation: rendering goes on until a screen is
\* shown
NavSpec == NavInit /\ [][NavNext]_vars /\ WF_vars(NavNext)

\* the number of redirects issued so far
Redirects == Len(probe.history) - 1

\* no path is visited twice
NoPathTwice ==
    \A i, j \in DOMAIN probe.history : i # j => probe.history[i] # probe.history[j]

\* C26: from any settled auth state and any requested route, navigation
\* reaches a rendered screen after at most two redirects.
C26_AtMostTwoRedirects ==
    /\ [](probe.fn = "navigate" => Redirects <= 2)
    /\ <>(probe.fn = "navigate" /\ probe.rendered)

\* C26 as amended: navigation reaches a rendered screen after at most three
\* redirects, and no path is visited twice, so the redirects of the Login
\* page and of the guard never alternate.
C26_RedirectsTerminate ==
    /\ [](probe.fn = "navigate" => (Redirects <= 3 /\ NoPathTwice))
    /\ <>(probe.fn = "navigate" /\ probe.rendered)

\* C26 witness: an authenticated session without role requests a path only
\* the catch-all route matches and ends on /unauthorized.
C26_Witness ==
    /\ probe.fn = "navigate" /\ probe.rendered
    /\ isAuthenticated /\ role = Null
    /\ probe.history = << "/elsewhere", "/login", "/", "/unauthorized" >>

\* ------------------------------------------------------------------------
\* The application as the user drives it: the router shows one page, the
\* Login form calls login, the Header's button calls logout, and the mount
\* effect calls refresh.  probe holds the page state: the current path and
\* the loggingOut state of the Header on the page.
\* ------------------------------------------------------------------------
MaxUiCalls == 2

\* React Router follows the redirects from a path until an element renders
RECURSIVE Resolve(_, _, _)
Resolve(st, path, fuel) ==
    LET element == AppRouter(st, path) IN
    IF element.redirect /\ fuel > 0 THEN Resolve(st, element.to, fuel - 1) ELSE path

\* the path shown once the session is st and the router was at path
Shown(st, path) == Resolve(st, path, MaxRedirects)

Page(path, loggingOut) == [fn |-> "ui", path |-> path, loggingOut |-> loggingOut]

\* the pending calls when the page changes: the Header that started a
\* logout call is unmounted, the call goes on
Unmounted(c) == IF c.caller = "header" THEN [c EXCEPT !.caller = "header-gone"] ELSE c
CountIn(bag, c) == IF c \in DOMAIN bag THEN bag[c] ELSE 0
UnmountHeader(bag) ==
    [d \in {Unmounted(c) : c \in DOMAIN bag} |->
        IF d.caller = "header-gone"
        THEN CountIn(bag, d) + CountIn(bag, [d EXCEPT !.caller = "header"])
        ELSE bag[d]]

\* the page and the pending calls after the session became st and the
\* router was asked for path: a new page mounts a new Header
ShowPage(st, path, calls, loggingOut) ==
    LET shown == Shown(st, path) IN
    IF shown = probe.path
    THEN /\ probe' = Page(shown, loggingOut)
         /\ pending' = calls
    ELSE /\ probe' = Page(shown, FALSE)
         /\ pending' = UnmountHeader(calls)

\* the page is loaded at any path
UiInit ==
    /\ storage \in InitialStorages
    /\ authHeader = NoToken
    /\ isAuthenticated = FALSE
    /\ initializing = TRUE
    /\ institutionId = storage["institutionId"]
    /\ role = IF storage["employeeRole"] # Null /\ isEmployeeRole(Str(storage["employeeRole"]))
              THEN storage["employeeRole"] ELSE Null
    /\ employeeId = storage["employeeId"]
    /\ pending = EmptyBag
    /\ bootRuns = 0
    /\ lastResult = NoResult
    /\ \E path \in AppPaths : probe = Page(Shown(Session, path), FALSE)

\* the reply to a boot-time refresh arrives
UiBootSettle ==
    \E call \in PendingCalls("refresh", "boot") : \E reply \in AuthReplies :
        LET outcome == bootEffect(Session, reply) IN
        /\ Commit(outcome.st)
        /\ lastResult' = Result(call, reply, outcome.thrown)
        /\ ShowPage(outcome.st, probe.path, pending (-) SetToBag({call}), probe.loggingOut)
        /\ UNCHANGED bootRuns

\* Login page: the form is submitted; the form is rendered at /login once
\* initializing is false
LoginSubmit ==
    /\ bootRuns > 0
    /\ probe.path = "/login"
    /\ ~initializing
    /\ BagCardinality(pending) < MaxUiCalls
    /\ pending' = pending (+) SetToBag({Call("login", "login-form", authHeader)})
    /\ UNCHANGED << authHeader, isAuthenticated, initializing, institutionId, role,
                    employeeId, storage, bootRuns, lastResult, probe >>

\* the reply to the login arrives
UiLoginSettle ==
    \E call \in PendingCalls("login", "login-form") : \E reply \in AuthReplies :
        LET outcome == login(Session, reply) IN
        /\ Commit(outcome.st)
        /\ lastResult' = Result(call, reply, outcome.thrown)
        /\ ShowPage(outcome.st, probe.path, pending (-) SetToBag({call}), probe.loggingOut)
        /\ UNCHANGED bootRuns

\* Header: the logout button is clicked; it is shown when isAuthenticated and
\* not initializing, and handleLogout returns at once while loggingOut
LogoutClick ==
    /\ isAuthenticated /\ ~initializing
    /\ ~probe.loggingOut
    /\ BagCardinality(pending) < MaxUiCalls
    /\ pending' = pending (+) SetToBag({Call("logout", "header", authHeader)})
    /\ probe' = Page(probe.path, TRUE)
    /\ UNCHANGED << authHeader, isAuthenticated, initializing, institutionId, role,
                    employeeId, storage, bootRuns, lastResult >>

\* Header: handleLogout goes on when the reply to the logout arrives:
\* navigate('/login') runs only if logout() did not throw, and the finally
\* block resets loggingOut of the Header that started the call
UiLogoutSettle ==
    \E call \in {c \in BagToSet(pending) : c.kind = "logout"} :
    \E reply \in PlainReplies :
        LET outcome == logout(Session, reply)
            target == IF outcome.thrown THEN probe.path ELSE "/login"
            loggingOut == IF call.caller = "header" THEN FALSE ELSE probe.loggingOut
        IN
        /\ Commit(outcome.st)
        /\ lastResult' = Result(call, reply, outcome.thrown)
        /\ ShowPage(outcome.st, target, pending (-) SetToBag({call}), loggingOut)
        /\ UNCHANGED bootRuns

\* the user follows a link or enters a path
UserNavigates ==
    /\ bootRuns > 0
    /\ \E path \in AppPaths :
          /\ Shown(Session, path) # probe.path
          /\ ShowPage(Session, path, pending, probe.loggingOut)
    /\ UNCHANGED << authHeader, isAuthenticated, initializing, institutionId, role,
                    employeeId, storage, bootRuns, lastResult >>

UiNext ==
    \/ BootEffectStart
    \/ UiBootSettle
    \/ LoginSubmit
    \/ UiLoginSettle
    \/ LogoutClick
    \/ UiLogoutSettle
    \/ UserNavigates

UiSpec == UiInit /\ [][UiNext]_vars

\* the step issues a login call
LoginIssued ==
    \E c \in BagToSet(pending') : c.kind = "login" /\ CountIn(pending', c) > CountIn(pending, c)

\* the session was established by the login that settled last
EstablishedByLogin ==
    isAuthenticated /\ lastResult.kind = "login" /\ ~Failed(lastResult)

\* C28: no login call is issued while a boot-time refresh is in flight, and a
\* boot-time refresh that fails never clears a session established by a
\* login.
C28_NoLoginDuringBoot ==
    [][/\ LoginIssued => ~BootCallPending
       /\ (EstablishedByLogin /\ Settled /\ lastResult'.caller = "boot"
              /\ Failed(lastResult'))
            => isAuthenticated']_vars

\* the logout calls started from a Header that are in flight
LogoutsInFlight ==
    BagCardinality([c \in {d \in DOMAIN pending : d.kind = "logout"} |-> pending[c]])

\* C29: whenever the Header's logout settles, after a successful or a failed
\* remote call and on whichever page, the current route is /login; and at
\* most one logout call started from the Header is in flight.
C29_LogoutEndsAtLogin ==
    /\ [][(Settled /\ lastResult'.kind = "logout") => probe'.path = "/login"]_vars
    /\ [](LogoutsInFlight <= 1)

====
